---- MODULE Spec2Model ----
\* Model of the Tukorea notice bot (tukorea_notice_bot): the seen-id state
\* store (state.py), the novelty computation (diff_new_notices), the Discord
\* delivery loop (notifier.py) and the run workflow (main.py).
EXTENDS Integers, Sequences, FiniteSets, TLC

VARIABLES
    pc,            \* position of the running process / of the store harness
    file,          \* state.json on disk: [kind, text]
    settings,      \* Settings returned by get_settings
    seen_ids,      \* main: the set load_seen_ids returned
    new_notices,   \* main: the list diff_new_notices returned
    idx,           \* notify_new_notices: 1-based position in new_notices
    exit_code,     \* main's return value (-1 while running)
    outcome,       \* why the run ended
    runs,          \* number of runs started
    posted,        \* ids posted successfully during the current run
    retried,       \* 429 answers seen for the current notice (saturating)
    file_at_start, \* state.json as it was when the current run started
    delivered,     \* ids posted by earlier runs that ended with exit 0 and a save
    today,         \* the clock: date.today()
    env,           \* the process environment get_settings reads
    args,          \* arguments of the call under test (harness specifications)
    ret            \* result of the call under test (harness specifications)

vars == <<pc, file, settings, seen_ids, new_notices, idx, exit_code, outcome,
          runs, posted, retried, file_at_start, delivered, today, env,
          args, ret>>

-----------------------------------------------------------------------------
\* Bounds of the model.

MaxNotices == 2     \* longest candidate list handed to diff_new_notices
MaxDay == 2         \* dates are the day ordinals 0..MaxDay
MaxRange == 2       \* largest date_range_days
MaxPage == 2        \* longest board page of a run
MaxRuns == 2        \* runs the scheduler starts
MaxSize == 2        \* max_size of a save ranges over -MaxSize..MaxSize
RetryCap == 2       \* the observer's count of 429 answers saturates here
MaxSaves == 1       \* save_seen_ids calls of the store harness

-----------------------------------------------------------------------------
\* Python strings are sequences of one-character strings.

Digits == {"0", "1", "2", "3", "4", "5", "6", "7", "8", "9"}
Whitespace == {" "}

DigitVal(c) ==
    CASE c = "0" -> 0 [] c = "1" -> 1 [] c = "2" -> 2 [] c = "3" -> 3
      [] c = "4" -> 4 [] c = "5" -> 5 [] c = "6" -> 6 [] c = "7" -> 7
      [] c = "8" -> 8 [] c = "9" -> 9

DigitChar(d) ==
    CASE d = 0 -> "0" [] d = 1 -> "1" [] d = 2 -> "2" [] d = 3 -> "3"
      [] d = 4 -> "4" [] d = 5 -> "5" [] d = 6 -> "6" [] d = 7 -> "7"
      [] d = 8 -> "8" [] d = 9 -> "9"

\* ord() of the characters the model uses (code points).
Ord(c) ==
    CASE c = " " -> 32 [] c = "-" -> 45 [] c = "N" -> 78 [] c = "a" -> 97
      [] c = "e" -> 101 [] c = "n" -> 110 [] c = "o" -> 111
      [] OTHER -> 48 + DigitVal(c)

RECURSIVE lstrip(_)
lstrip(s) ==
    IF s # <<>> /\ Head(s) \in Whitespace THEN lstrip(Tail(s)) ELSE s

RECURSIVE rstrip(_)
rstrip(s) ==
    IF s # <<>> /\ s[Len(s)] \in Whitespace
    THEN rstrip(SubSeq(s, 1, Len(s) - 1))
    ELSE s

\* str.strip()
strip(s) == rstrip(lstrip(s))

RECURSIVE DigitsVal(_)
DigitsVal(s) ==
    IF s = <<>> THEN 0
    ELSE 10 * DigitsVal(SubSeq(s, 1, Len(s) - 1)) + DigitVal(s[Len(s)])

RECURSIVE NatToStr(_)
NatToStr(n) ==
    IF n < 10 THEN <<DigitChar(n)>>
    ELSE NatToStr(n \div 10) \o <<DigitChar(n % 10)>>

\* A Python value that may sit in a seen_ids collection or a JSON list.
StrV(s) == [kind |-> "str", s |-> s, n |-> 0]
IntV(n) == [kind |-> "int", s |-> <<>>, n |-> n]
NoneV == [kind |-> "none", s |-> <<>>, n |-> 0]

\* str(x)
PyStr(x) ==
    CASE x.kind = "str" -> x.s
      [] x.kind = "int" -> IF x.n < 0 THEN <<"-">> \o NatToStr(-x.n) ELSE NatToStr(x.n)
      [] x.kind = "none" -> <<"N", "o", "n", "e">>

\* int(s) of a string: surrounding whitespace and one sign are accepted;
\* anything else but decimal digits is a ValueError (ok = FALSE).
PyInt(s) ==
    LET t == strip(s)
        signed == t # <<>> /\ Head(t) \in {"-", "+"}
        body == IF signed THEN Tail(t) ELSE t
        good == body # <<>> /\ \A i \in 1..Len(body) : body[i] \in Digits
    IN  IF ~good THEN [ok |-> FALSE, val |-> 0]
        ELSE [ok |-> TRUE,
              val |-> IF signed /\ Head(t) = "-" THEN -DigitsVal(body) ELSE DigitsVal(body)]

\* s < t in Python's string order (by code point, a proper prefix first).
RECURSIVE StrLess(_, _)
StrLess(s, t) ==
    IF t = <<>> THEN FALSE
    ELSE IF s = <<>> THEN TRUE
    ELSE IF Ord(Head(s)) # Ord(Head(t)) THEN Ord(Head(s)) < Ord(Head(t))
    ELSE StrLess(Tail(s), Tail(t))

Min(a, b) == IF a < b THEN a ELSE b
Max(a, b) == IF a > b THEN a ELSE b

\* seq[:k] with Python's slice semantics (a negative k counts from the end).
SlicePrefix(seq, k) ==
    IF k >= 0 THEN SubSeq(seq, 1, Min(k, Len(seq)))
    ELSE SubSeq(seq, 1, Max(0, Len(seq) + k))

Range(seq) == {seq[i] : i \in 1..Len(seq)}

-----------------------------------------------------------------------------
\* models.Notice: the fields the state and delivery code read.

Notice(id, d) == [id |-> id, date |-> d]

\* No reference_date argument (None).
NoDate == -1

-----------------------------------------------------------------------------
\* state.diff_new_notices

NoticeKey(n) == PyInt(n.id).val

\* list.sort(key=...) is stable: insert each element after the elements whose
\* key is not larger.
RECURSIVE InsertByKey(_, _)
InsertByKey(sorted, x) ==
    IF sorted = <<>> THEN <<x>>
    ELSE IF NoticeKey(sorted[Len(sorted)]) <= NoticeKey(x) THEN Append(sorted, x)
    ELSE Append(InsertByKey(SubSeq(sorted, 1, Len(sorted) - 1), x), sorted[Len(sorted)])

RECURSIVE StableSort(_)
StableSort(seq) ==
    IF seq = <<>> THEN <<>>
    ELSE InsertByKey(StableSort(SubSeq(seq, 1, Len(seq) - 1)), seq[Len(seq)])

\* Mutant: the survivors are returned in input order, never sorted.
SortNewList_Unsorted(new_list) == new_list

\* new_list.sort(key=lambda n: int(str(n.id))) inside try/except ValueError:
\* the keys are computed first, and one ValueError leaves the list as it was.
SortNewList(new_list) ==
    IF \A i \in 1..Len(new_list) : PyInt(new_list[i].id).ok
    THEN StableSort(new_list)
    ELSE new_list

SeenNormalized(seen) == {strip(PyStr(x)) : x \in seen}

CutoffDate(date_range_days, reference_date, clock) ==
    (IF reference_date # NoDate THEN reference_date ELSE clock) - (date_range_days - 1)

\* Mutant: the candidate's id is compared as it is, untrimmed.
KeepNotice_Untrimmed(n, seen, filter_by_date, cutoff_date) ==
    /\ n.id \notin seen
    /\ ~(filter_by_date /\ n.date < cutoff_date)

\* The loop's test for one notice: TRUE when the notice is appended.
KeepNotice(n, seen, filter_by_date, cutoff_date) ==
    /\ strip(n.id) \notin seen
    /\ ~(filter_by_date /\ n.date < cutoff_date)

diff_new_notices(notices, seen, filter_by_date, date_range_days, reference_date, clock) ==
    LET norm == SeenNormalized(seen)
        cutoff_date == CutoffDate(date_range_days, reference_date, clock)
        Keep(n) == KeepNotice(n, norm, filter_by_date, cutoff_date)
    IN  SortNewList(SelectSeq(notices, Keep))

-----------------------------------------------------------------------------
\* state.json: a file is missing, unreadable (read_text raises an OSError
\* other than FileNotFoundError) or holds text. The text is a sequence of JSON
\* tokens, so that a write cut short leaves a proper prefix of it.

Tok(t) == [t |-> t, v |-> <<>>]
StrTok(s) == [t |-> "str", v |-> s]
NumTok(n) == [t |-> "num", v |-> NatToStr(n)]
KeyTok(name) == [t |-> "key", v |-> <<name>>]
NullTok == Tok("null")

TextFile(text) == [kind |-> "text", text |-> text]

\* json.dumps({"seen_ids": trimmed}, ensure_ascii=False, indent=2)
json_dumps(trimmed) ==
    <<Tok("{"), KeyTok("seen_ids"), Tok("[")>>
        \o [i \in 1..Len(trimmed) |-> StrTok(trimmed[i])]
        \o <<Tok("]"), Tok("}")>>

IsScalarTok(k) == k.t \in {"str", "num", "null"}

NoValue == [ok |-> FALSE, type |-> "", items |-> <<>>]

\* A JSON value that is a scalar or a list of scalars.
ParseValue(toks) ==
    IF Len(toks) = 1 /\ IsScalarTok(toks[1])
    THEN [ok |-> TRUE, type |-> toks[1].t, items |-> toks]
    ELSE IF /\ Len(toks) >= 2
            /\ toks[1].t = "[" /\ toks[Len(toks)].t = "]"
            /\ \A i \in 2..(Len(toks) - 1) : IsScalarTok(toks[i])
    THEN [ok |-> TRUE, type |-> "list", items |-> SubSeq(toks, 2, Len(toks) - 1)]
    ELSE NoValue

\* json.loads(raw): ok = FALSE is a JSONDecodeError. An object holds at most
\* one key here; member is the value of its "seen_ids" key, if it has one.
json_loads(text) ==
    LET v == ParseValue(text)
        inner == SubSeq(text, 2, Len(text) - 1)
    IN  IF v.ok THEN [ok |-> TRUE, type |-> v.type, has_seen |-> FALSE, member |-> v]
        ELSE IF Len(text) >= 2 /\ text[1].t = "{" /\ text[Len(text)].t = "}"
        THEN IF inner = <<>>
             THEN [ok |-> TRUE, type |-> "object", has_seen |-> FALSE, member |-> NoValue]
             ELSE IF inner[1].t = "key" /\ ParseValue(Tail(inner)).ok
             THEN [ok |-> TRUE, type |-> "object",
                   has_seen |-> inner[1].v = <<"seen_ids">>,
                   member |-> ParseValue(Tail(inner))]
             ELSE [ok |-> FALSE, type |-> "", has_seen |-> FALSE, member |-> NoValue]
        ELSE [ok |-> FALSE, type |-> "", has_seen |-> FALSE, member |-> NoValue]

\* The Python value a scalar token decodes to.
TokValue(k) ==
    CASE k.t = "str" -> StrV(k.v)
      [] k.t = "num" -> IntV(DigitsVal(k.v))
      [] k.t = "null" -> NoneV

Returned(value) == [raised |-> "none", value |-> value]
Raised(exc) == [raised |-> exc, value |-> {}]

\* state.load_seen_ids
load_seen_ids(f) ==
    IF f.kind = "missing" THEN Returned({})                 \* FileNotFoundError
    ELSE IF f.kind = "unreadable" THEN Raised("OSError")    \* not caught
    ELSE LET data == json_loads(f.text)
         IN  IF ~data.ok THEN Returned({})                  \* JSONDecodeError
             ELSE IF data.type # "object" THEN Raised("AttributeError")  \* data.get
             ELSE IF ~data.has_seen THEN Returned({})       \* the default, []
             ELSE IF data.member.type = "list"
             THEN Returned({strip(PyStr(TokValue(k))) : k \in Range(data.member.items)})
             ELSE IF data.member.type = "str"               \* iterates the characters
             THEN Returned({strip(<<c>>) : c \in Range(data.member.items[1].v)})
             ELSE Raised("TypeError")                       \* int, None: not iterable

-----------------------------------------------------------------------------
\* state.save_seen_ids

Perms(S) == {p \in [1..Cardinality(S) -> S] : \A i, j \in 1..Cardinality(S) : i # j => p[i] # p[j]}

\* sorted(ids_set, key=int, reverse=True), or sorted(ids_set, reverse=True)
\* after a ValueError. A set has no order of its own, so ids of equal key may
\* come out either way round: every outcome is in the set.
SortedIds(ids_set) ==
    IF \A x \in ids_set : PyInt(x).ok
    THEN {p \in Perms(ids_set) :
            \A i, j \in 1..Len(p) : i < j => PyInt(p[i]).val >= PyInt(p[j]).val}
    ELSE {p \in Perms(ids_set) :
            \A i, j \in 1..Len(p) : i < j => StrLess(p[j], p[i])}

\* The texts save_seen_ids may hand to write_text.
SaveTexts(seen, max_size) ==
    {json_dumps(SlicePrefix(sorted_ids, max_size)) : sorted_ids \in SortedIds(SeenNormalized(seen))}

-----------------------------------------------------------------------------
\* Values the specifications draw their inputs from.

Days == 0..MaxDay

\* "2" and "2 " are one id after strip(); "10" sorts after "2" as a number
\* and before it as a string; "a" is no number.
IdPool == {<<"2">>, <<"1", "0">>, <<"2", " ">>, <<"a">>}
NoticePool == {Notice(id, d) : id \in IdPool, d \in Days}

\* Elements a caller may hold in seen_ids: an untrimmed string and an int.
SeenPool == {StrV(<<" ", "2">>), IntV(10)}

SeqsUpTo(S, n) == UNION {[1..k -> S] : k \in 0..n}

NotCalled == [op |-> "none"]

\* The environment of a deployment that sets the webhook and nothing else:
\* os.getenv returns the defaults of config.py.
DefaultEnv ==
    [DISCORD_WEBHOOK_URL |-> "https://hook", MAX_SEEN_IDS |-> <<"5", "0", "0">>,
     FILTER_BY_DATE |-> "True", DATE_RANGE_DAYS |-> <<"1">>]

NoSettings == [max_seen_ids |-> 0, filter_by_date |-> FALSE, date_range_days |-> 1]

\* The variables of the run workflow, at rest.
MainIdle ==
    /\ pc = "idle"
    /\ settings = NoSettings
    /\ seen_ids = {}
    /\ new_notices = <<>>
    /\ idx = 0
    /\ exit_code = -1
    /\ outcome = "none"
    /\ runs = 0
    /\ posted = <<>>
    /\ retried = 0
    /\ delivered = {}
    /\ env = DefaultEnv

mainVars == <<pc, settings, seen_ids, new_notices, idx, exit_code, outcome,
              runs, posted, retried, delivered, env>>

AbsentFile == [kind |-> "missing", text |-> <<>>]

-----------------------------------------------------------------------------
\* SpecDiff: diff_new_notices called once on arbitrary arguments.

DiffInit ==
    /\ MainIdle
    /\ file = AbsentFile
    /\ file_at_start = AbsentFile
    /\ today \in Days
    /\ ret = NotCalled
    /\ \E notices \in SeqsUpTo(NoticePool, MaxNotices), seen \in SUBSET SeenPool,
          filter_by_date \in BOOLEAN, date_range_days \in 0..MaxRange,
          reference_date \in {NoDate} \cup Days :
            args = [op |-> "diff", notices |-> notices, seen_ids |-> seen,
                    filter_by_date |-> filter_by_date,
                    date_range_days |-> date_range_days,
                    reference_date |-> reference_date]

\* Mutant: the call sorts the list it was given, in place.
DiffCall_SortsInput ==
    /\ args.op = "diff"
    /\ ret = NotCalled
    /\ ret' = [op |-> "diff",
               value |-> diff_new_notices(args.notices, args.seen_ids,
                                          args.filter_by_date, args.date_range_days,
                                          args.reference_date, today)]
    /\ args' = [args EXCEPT !.notices = SortNewList(args.notices)]
    /\ UNCHANGED <<mainVars, file, file_at_start, today>>

DiffCall ==
    /\ args.op = "diff"
    /\ ret = NotCalled
    /\ ret' = [op |-> "diff",
               value |-> diff_new_notices(args.notices, args.seen_ids,
                                          args.filter_by_date, args.date_range_days,
                                          args.reference_date, today)]
    /\ UNCHANGED <<mainVars, file, file_at_start, today, args>>

DiffNext == DiffCall

SpecDiff == DiffInit /\ [][DiffNext]_vars

-----------------------------------------------------------------------------
\* SpecPure: diff_new_notices called a second time with the same argument
\* objects, after the clock has moved on.

PureInit == DiffInit /\ today = 0

\* Time passes (date.today() becomes `now`) and the same call is made again;
\* first_clock remembers the day of the first call.
DiffCallAgain ==
    /\ ret.op = "diff"
    /\ \E now \in Days :
          /\ now > today
          /\ today' = now
          /\ ret' = [op |-> "again",
                     value |-> ret.value,
                     first_clock |-> today,
                     again |-> diff_new_notices(args.notices, args.seen_ids,
                                                args.filter_by_date, args.date_range_days,
                                                args.reference_date, now)]
    /\ UNCHANGED <<mainVars, file, file_at_start, args>>

PureNext == DiffCall \/ DiffCallAgain

SpecPure == PureInit /\ [][PureNext]_vars

-----------------------------------------------------------------------------
\* SpecStore: save_seen_ids and load_seen_ids called on a state file, with
\* the process possibly dying while write_text writes.

\* Ids a caller may save: "02" and "2" are equal as numbers.
SavePool == {StrV(<<"2">>), StrV(<<"1", "0">>), StrV(<<"0", "2">>), StrV(<<"1">>),
             StrV(<<"a">>)}

MaxSizes == (-MaxSize)..MaxSize

\* State files found on disk before the first call: none, an unreadable one,
\* an empty one, JSON that is no object, objects without a seen_ids list, and
\* well-formed ones.
FilePool ==
    {AbsentFile,
     [kind |-> "unreadable", text |-> <<>>],
     TextFile(<<>>),
     TextFile(<<Tok("["), Tok("]")>>),
     TextFile(<<NumTok(5)>>),
     TextFile(<<Tok("{"), Tok("}")>>),
     TextFile(<<Tok("{"), KeyTok("other"), Tok("["), StrTok(<<"2">>), Tok("]"), Tok("}")>>),
     TextFile(<<Tok("{"), KeyTok("seen_ids"), NumTok(5), Tok("}")>>),
     TextFile(<<Tok("{"), KeyTok("seen_ids"), NullTok, Tok("}")>>),
     TextFile(<<Tok("{"), KeyTok("seen_ids"), StrTok(<<"2", "a">>), Tok("}")>>),
     TextFile(<<Tok("{"), KeyTok("seen_ids"), Tok("["), NumTok(7), StrTok(<<" ", "2">>), Tok("]"), Tok("}")>>),
     TextFile(json_dumps(<<<<"2">>>>)),
     TextFile(json_dumps(<<<<"1", "0">>, <<"2">>>>))}

StoreInit ==
    /\ MainIdle
    /\ file \in FilePool
    /\ file_at_start = file
    /\ today = 0
    /\ args = NotCalled
    /\ ret = NotCalled

\* save_seen_ids up to write_text's open(): the file is created or truncated.
\* Opening a path that cannot be opened raises and leaves it alone.
StoreSaveOpen ==
    /\ pc = "idle"
    /\ runs < MaxSaves
    /\ runs' = runs + 1
    /\ \E seen \in SUBSET SavePool, max_size \in MaxSizes :
        \E text \in SaveTexts(seen, max_size) :
          IF file.kind = "unreadable"
          THEN /\ ret' = [op |-> "save", raised |-> "OSError", value |-> {}, of |-> file]
               /\ UNCHANGED <<pc, file, args, file_at_start>>
          ELSE /\ args' = [op |-> "save", seen_ids |-> seen, max_size |-> max_size,
                           text |-> text]
               /\ file_at_start' = file
               /\ file' = TextFile(<<>>)
               /\ pc' = "writing"
               /\ ret' = NotCalled
    /\ UNCHANGED <<settings, seen_ids, new_notices, idx, exit_code, outcome,
                   posted, retried, today, env, delivered>>

\* write_text's write(): the rest of the text reaches the disk.
StoreSaveWrite ==
    /\ pc = "writing"
    /\ file' = TextFile(args.text)
    /\ pc' = "idle"
    /\ ret' = [op |-> "save", raised |-> "none", value |-> {}, of |-> file']
    /\ UNCHANGED <<settings, seen_ids, new_notices, idx, exit_code, outcome, runs,
                   posted, retried, today, env, delivered, args, file_at_start>>

\* The process dies inside write_text: a proper prefix of the text is on disk.
StoreInterrupt ==
    /\ pc = "writing"
    /\ \E k \in 0..(Len(args.text) - 1) : file' = TextFile(SubSeq(args.text, 1, k))
    /\ pc' = "interrupted"
    /\ UNCHANGED <<settings, seen_ids, new_notices, idx, exit_code, outcome, runs,
                   posted, retried, today, env, delivered, args, file_at_start, ret>>

\* The next process starts after the interruption.
StoreRestart ==
    /\ pc = "interrupted"
    /\ pc' = "idle"
    /\ UNCHANGED <<file, settings, seen_ids, new_notices, idx, exit_code, outcome, runs,
                   posted, retried, today, env, delivered, args, file_at_start, ret>>

StoreLoad ==
    /\ pc \in {"idle", "interrupted"}
    /\ LET r == load_seen_ids(file)
       IN  ret' = [op |-> "load", raised |-> r.raised, value |-> r.value, of |-> file]
    /\ UNCHANGED <<pc, file, settings, seen_ids, new_notices, idx, exit_code, outcome,
                   runs, posted, retried, today, env, delivered, args, file_at_start>>

StoreNext ==
    \/ StoreSaveOpen
    \/ StoreSaveWrite
    \/ StoreInterrupt
    \/ StoreRestart
    \/ StoreLoad

SpecStore == StoreInit /\ [][StoreNext]_vars

-----------------------------------------------------------------------------
\* Claims about diff_new_notices (SpecDiff).

DiffDone == ret.op = "diff"

\* The reference date the call used.
DiffRefDate == IF args.reference_date # NoDate THEN args.reference_date ELSE today

AllDigit(id) == id # <<>> /\ \A i \in 1..Len(id) : id[i] \in Digits

\* n's trimmed id equals the trimmed string form of some element of seen_ids.
IdSeen(n) == \E x \in args.seen_ids : strip(n.id) = strip(PyStr(x))

\* n is dated on or after the first day of the window.
NotBeforeWindow(n) == n.date >= DiffRefDate - (args.date_range_days - 1)

\* n is dated on one of the days D-(N-1) .. D.
InWindow(n) == NotBeforeWindow(n) /\ n.date <= DiffRefDate

Survivor(n) == ~IdSeen(n) /\ (args.filter_by_date => NotBeforeWindow(n))

Count(seq, x) == Cardinality({i \in 1..Len(seq) : seq[i] = x})

\* C1: diff_new_notices never returns a notice whose trimmed id equals the
\* trimmed string form of an element of seen_ids, whatever the recency
\* options are and whatever the notice's date is.
C1_SeenNeverReturned ==
    DiffDone => \A i \in 1..Len(ret.value) : ~IdSeen(ret.value[i])

\* A seen notice dated inside the window was among the candidates of a call
\* with the filter on, next to an unseen one that was returned.
C1_Witness ==
    /\ DiffDone
    /\ args.filter_by_date /\ args.date_range_days >= 1
    /\ \E i \in 1..Len(args.notices) :
          /\ IdSeen(args.notices[i]) /\ InWindow(args.notices[i])
          /\ \A x \in args.seen_ids : PyStr(x) # args.notices[i].id
    /\ ret.value # <<>>

\* C2 (as claimed): with the filter on and N >= 1 the result holds exactly the
\* unseen candidates dated D-(N-1) .. D; none dated after D is returned.
C2_ExactlyTheWindow ==
    (DiffDone /\ args.filter_by_date /\ args.date_range_days >= 1
        /\ args.reference_date # NoDate)
        => Range(ret.value) = {n \in Range(args.notices) : ~IdSeen(n) /\ InWindow(n)}

\* C3: the result holds every survivor as often as the input does and nothing
\* else; it ascends by int(id) when every survivor's id is all-digit, and
\* keeps the input's relative order when some survivor's id is no number.
C3_SurvivorsSorted ==
    DiffDone =>
        LET survivors == SelectSeq(args.notices, Survivor)
            out == ret.value
        IN  /\ \A n \in Range(args.notices) \cup Range(out) :
                  Count(out, n) = Count(survivors, n)
            /\ (\A i \in 1..Len(survivors) : AllDigit(survivors[i].id))
                  => \A i, j \in 1..Len(out) :
                        i < j => PyInt(out[i].id).val <= PyInt(out[j].id).val
            /\ (\E i \in 1..Len(survivors) : ~PyInt(survivors[i].id).ok)
                  => out = survivors

\* Two all-digit survivors came in descending order and were swapped.
C3_Witness ==
    /\ DiffDone
    /\ Len(ret.value) >= 2
    /\ \A i \in 1..Len(ret.value) : AllDigit(ret.value[i].id)
    /\ ret.value # SelectSeq(args.notices, Survivor)

-----------------------------------------------------------------------------
\* Claims about the state store (SpecStore).

LoadDone == ret.op = "load"

\* save_seen_ids returned and nothing touched the file since.
SaveCompleted == args.op = "save" /\ pc = "idle" /\ file = TextFile(args.text)

\* The seen_ids list a state file holds.
PersistedList(f) == json_loads(f.text).member.items

\* The file is missing or unreadable, or its content is no JSON, no JSON
\* object, or an object whose seen_ids is not a list.
NoUsableState(f) ==
    \/ f.kind # "text"
    \/ ~json_loads(f.text).ok
    \/ json_loads(f.text).type # "object"
    \/ json_loads(f.text).has_seen /\ json_loads(f.text).member.type # "list"

\* C6 (as claimed): load_seen_ids never raises, and returns the empty set for
\* a state file that is missing, unreadable, or corrupt.
C6_LoadNeverRaises ==
    LoadDone => /\ ret.raised = "none"
                /\ NoUsableState(ret.of) => ret.value = {}

\* C7 (as claimed): a load after an interrupted save returns the complete set
\* saved before or the complete new set.
C7_InterruptedSaveKeepsState ==
    (LoadDone /\ pc = "interrupted" /\ ret.of = file
        /\ ~NoUsableState(file_at_start))
        => /\ ret.raised = "none"
           /\ ret.value \in {load_seen_ids(file_at_start).value,
                             load_seen_ids(TextFile(args.text)).value}

SavedIds == {PyStr(x) : x \in args.seen_ids}

\* C8 (as claimed): saving a set of all-digit ids with any max_size and
\* loading it back yields exactly the min(max_size, |ids|) numerically largest
\* ids (none when that count is below zero), and the persisted list descends
\* by numeric value.
C8_RoundTrip ==
    (SaveCompleted /\ LoadDone /\ ret.of = file /\ \A id \in SavedIds : AllDigit(id))
        => /\ ret.raised = "none"
           /\ Cardinality(ret.value) = Max(0, Min(args.max_size, Cardinality(SavedIds)))
           /\ ret.value \subseteq SavedIds
           /\ \A a \in ret.value, b \in SavedIds \ ret.value :
                 PyInt(a).val >= PyInt(b).val
           /\ \A i, j \in 1..Len(PersistedList(file)) :
                 i < j => PyInt(PersistedList(file)[i].v).val
                            >= PyInt(PersistedList(file)[j].v).val

\* C9 (as claimed): for every id collection and every integer max_size the
\* list save_seen_ids writes has at most max_size elements (a list that holds
\* nothing is within every bound).
C9_AtMostMaxSize ==
    (SaveCompleted /\ PersistedList(file) # <<>>)
        => Len(PersistedList(file)) <= args.max_size

-----------------------------------------------------------------------------
\* config.get_settings

\* str.lower() of the FILTER_BY_DATE values the model uses.
Lower(v) ==
    CASE v = "True" -> "true" [] v = "TRUE" -> "true" [] v = "False" -> "false"
      [] OTHER -> v

ConfigError == [ok |-> FALSE, settings |-> NoSettings]

get_settings(e) ==
    IF e.DISCORD_WEBHOOK_URL = "" THEN ConfigError      \* unset or empty
    ELSE IF ~PyInt(e.MAX_SEEN_IDS).ok THEN ConfigError
    ELSE IF ~PyInt(e.DATE_RANGE_DAYS).ok THEN ConfigError
    ELSE [ok |-> TRUE,
          settings |-> [max_seen_ids |-> PyInt(e.MAX_SEEN_IDS).val,
                        filter_by_date |-> Lower(e.FILTER_BY_DATE) \in {"true", "1", "yes"},
                        date_range_days |-> PyInt(e.DATE_RANGE_DAYS).val]]

-----------------------------------------------------------------------------
\* Spec: the scheduler runs main() up to MaxRuns times on one deployment.

\* Deployments: the default one, and one setting changed at a time.
EnvPool ==
    {DefaultEnv,
     [DefaultEnv EXCEPT !.DISCORD_WEBHOOK_URL = ""],
     [DefaultEnv EXCEPT !.MAX_SEEN_IDS = <<"2">>],
     [DefaultEnv EXCEPT !.MAX_SEEN_IDS = <<"1">>],
     [DefaultEnv EXCEPT !.MAX_SEEN_IDS = <<"0">>],
     [DefaultEnv EXCEPT !.MAX_SEEN_IDS = <<"-", "1">>],
     [DefaultEnv EXCEPT !.MAX_SEEN_IDS = <<"a">>],
     [DefaultEnv EXCEPT !.FILTER_BY_DATE = "false"],
     [DefaultEnv EXCEPT !.DATE_RANGE_DAYS = <<"2">>],
     [DefaultEnv EXCEPT !.DATE_RANGE_DAYS = <<"0">>],
     [DefaultEnv EXCEPT !.DATE_RANGE_DAYS = <<"a">>]}

\* Notices parse_notices may return: all-digit ids, dated yesterday or today.
PageIds == {<<"1">>, <<"2">>, <<"1", "0">>}
Pages == SeqsUpTo({Notice(id, d) : id \in PageIds, d \in {0, 1}}, MaxPage)

\* State files of a deployment before its first modelled run: none, one left
\* by earlier runs, and one that holds a JSON list.
DeployedFiles ==
    {AbsentFile,
     TextFile(json_dumps(<<<<"2">>, <<"1">>>>)),
     TextFile(<<Tok("["), Tok("]")>>)}

Init ==
    /\ pc = "idle"
    /\ settings = NoSettings
    /\ seen_ids = {}
    /\ new_notices = <<>>
    /\ idx = 0
    /\ exit_code = -1
    /\ outcome = "none"
    /\ runs = 0
    /\ posted = <<>>
    /\ retried = 0
    /\ delivered = {}
    /\ env \in EnvPool
    /\ file \in DeployedFiles
    /\ file_at_start = file
    /\ today = 1
    /\ args = NotCalled
    /\ ret = NotCalled

Exit(code, why) ==
    /\ pc' = "exit"
    /\ exit_code' = code
    /\ outcome' = why

\* main() from its start to the fetch: get_settings, then load_seen_ids.
\* A ValueError of get_settings returns 1; an exception of load_seen_ids is
\* not caught and ends the process with status 1. What the run before it
\* posted, if it ended with the save, is delivered from now on.
MainStart ==
    /\ pc \in {"idle", "exit"}
    /\ runs < MaxRuns
    /\ runs' = runs + 1
    /\ file_at_start' = file
    /\ posted' = <<>>
    /\ retried' = 0
    /\ new_notices' = <<>>
    /\ idx' = 0
    /\ IF ~get_settings(env).ok
       THEN /\ Exit(1, "config_error")
            /\ settings' = NoSettings
            /\ seen_ids' = {}
       ELSE /\ settings' = get_settings(env).settings
            /\ IF load_seen_ids(file).raised # "none"
               THEN /\ Exit(1, "load_raised")
                    /\ seen_ids' = {}
               ELSE /\ seen_ids' = load_seen_ids(file).value
                    /\ pc' = "fetch"
                    /\ exit_code' = -1
                    /\ outcome' = "none"
    /\ delivered' = IF pc = "exit" /\ outcome = "sent"
                     THEN delivered \cup Range(posted)
                     ELSE delivered
    /\ UNCHANGED <<file, today, env, args, ret>>

\* Mutant: a failed fetch is taken for an empty page and the run "succeeds",
\* writing the seen set back.
MainFetchFailed_SavesState ==
    /\ pc = "fetch"
    /\ Exit(0, "fetch_failed")
    /\ \E text \in SaveTexts({StrV(id) : id \in seen_ids}, settings.max_seen_ids) :
          file' = TextFile(text)
    /\ UNCHANGED <<settings, seen_ids, new_notices, idx, runs, posted, retried,
                   file_at_start, today, env, delivered, args, ret>>

\* get_latest_notices raises a RequestException (network failure, non-2xx
\* status, timeout): main logs it and returns 1.
MainFetchFailed ==
    /\ pc = "fetch"
    /\ Exit(1, "fetch_failed")
    /\ UNCHANGED <<file, settings, seen_ids, new_notices, idx, runs, posted, retried,
                   file_at_start, today, env, delivered, args, ret>>

\* get_latest_notices raises any other exception: main returns 1.
MainParseFailed ==
    /\ pc = "fetch"
    /\ Exit(1, "parse_failed")
    /\ UNCHANGED <<file, settings, seen_ids, new_notices, idx, runs, posted, retried,
                   file_at_start, today, env, delivered, args, ret>>

\* Mutant: the run compares the page with an empty seen set.
MainFetched_IgnoresSeen ==
    /\ pc = "fetch"
    /\ \E page \in Pages :
        LET new == diff_new_notices(page, {},
                                    FALSE, 1, NoDate, today)
        IN  IF new = <<>>
            THEN /\ Exit(0, "nothing_new")
                 /\ UNCHANGED <<new_notices, idx>>
            ELSE /\ new_notices' = new
                 /\ idx' = 1
                 /\ pc' = "post"
                 /\ UNCHANGED <<exit_code, outcome>>
    /\ UNCHANGED <<file, settings, seen_ids, runs, posted, retried, file_at_start,
                   today, env, delivered, args, ret>>

\* get_latest_notices returns a page; diff_new_notices(notices, seen_ids) is
\* called with its default options; no new notice returns 0.
MainFetched ==
    /\ pc = "fetch"
    /\ \E page \in Pages :
        LET new == diff_new_notices(page, {StrV(id) : id \in seen_ids},
                                    FALSE, 1, NoDate, today)
        IN  IF new = <<>>
            THEN /\ Exit(0, "nothing_new")
                 /\ UNCHANGED <<new_notices, idx>>
            ELSE /\ new_notices' = new
                 /\ idx' = 1
                 /\ pc' = "post"
                 /\ UNCHANGED <<exit_code, outcome>>
    /\ UNCHANGED <<file, settings, seen_ids, runs, posted, retried, file_at_start,
                   today, env, delivered, args, ret>>

\* main after notify_new_notices returned: the seen set grows by the ids of
\* new_notices and is saved; main returns 0.
MainSave ==
    /\ \E text \in SaveTexts({StrV(id) : id \in seen_ids \cup {n.id : n \in Range(new_notices)}},
                             settings.max_seen_ids) :
          file' = TextFile(text)
    /\ Exit(0, "sent")

\* requests.post answers with a success status: the notice is delivered and
\* the loop goes on to the next one; after the last one main saves.
MainPostOk ==
    /\ pc = "post"
    /\ posted' = Append(posted, new_notices[idx].id)
    /\ retried' = 0
    /\ IF idx < Len(new_notices)
       THEN /\ idx' = idx + 1
            /\ UNCHANGED <<pc, exit_code, outcome, file>>
       ELSE /\ idx' = idx
            /\ MainSave
    /\ UNCHANGED <<settings, seen_ids, new_notices, runs, file_at_start, today, env,
                   delivered, args, ret>>

\* Mutant: a 429 answer gives the notice up and the loop moves on to the
\* next one.
MainPostRateLimited_SkipsNotice ==
    /\ pc = "post"
    /\ idx < Len(new_notices)
    /\ idx' = idx + 1
    /\ retried' = 0
    /\ UNCHANGED <<pc, file, settings, seen_ids, new_notices, exit_code, outcome, runs,
                   posted, file_at_start, today, env, delivered, args, ret>>

\* requests.post answers 429: _post_with_rate_limit sleeps retry_after
\* seconds. The loop counts nothing; retried only observes it.
MainPostRateLimited ==
    /\ pc = "post"
    /\ pc' = "sleep"
    /\ retried' = Min(retried + 1, RetryCap)
    /\ UNCHANGED <<file, settings, seen_ids, new_notices, idx, exit_code, outcome, runs,
                   posted, file_at_start, today, env, delivered, args, ret>>

\* time.sleep(retry_after) returns: `continue` posts the same payload again.
MainWake ==
    /\ pc = "sleep"
    /\ pc' = "post"
    /\ UNCHANGED <<file, settings, seen_ids, new_notices, idx, exit_code, outcome, runs,
                   posted, retried, file_at_start, today, env, delivered, args, ret>>

\* Mutant: the run marks the whole batch seen before it reports the failure.
MainPostFailed_SavesState ==
    /\ pc = "post"
    /\ \E text \in SaveTexts({StrV(id) : id \in seen_ids \cup {n.id : n \in Range(new_notices)}},
                             settings.max_seen_ids) :
          file' = TextFile(text)
    /\ Exit(1, "delivery_failed")
    /\ UNCHANGED <<settings, seen_ids, new_notices, idx, runs, posted, retried,
                   file_at_start, today, env, delivered, args, ret>>

\* requests.post raises, or raise_for_status raises on an error status other
\* than 429: the RequestException reaches main, which returns 1 without
\* saving.
MainPostFailed ==
    /\ pc = "post"
    /\ Exit(1, "delivery_failed")
    /\ UNCHANGED <<file, settings, seen_ids, new_notices, idx, runs, posted, retried,
                   file_at_start, today, env, delivered, args, ret>>

Next ==
    \/ MainStart
    \/ MainFetchFailed
    \/ MainParseFailed
    \/ MainFetched
    \/ MainPostOk
    \/ MainPostRateLimited
    \/ MainWake
    \/ MainPostFailed

Spec == Init /\ [][Next]_vars

\* The process, once started, keeps executing: a pending post is sent and a
\* sleep ends. What the sink answers is not constrained.
MainPost == MainPostOk \/ MainPostRateLimited \/ MainPostFailed

FairSpec == Spec /\ WF_vars(MainPost) /\ WF_vars(MainWake) /\ WF_vars(MainStart)

-----------------------------------------------------------------------------
\* Claims about a run (Spec, FairSpec).

\* The ids a later load_seen_ids would get from a state file.
StoredIds(f) == load_seen_ids(f).value

RunEnded(why) == pc = "exit" /\ outcome = why

InSend(i) == pc \in {"post", "sleep"} /\ idx = i

\* C4: a run in which a delivery fails hard exits non-zero and leaves the
\* state file as it was when the run started; no id of a notice that was not
\* posted successfully is ever written.
C4_HardFailureKeepsState ==
    /\ RunEnded("delivery_failed") => exit_code # 0 /\ file = file_at_start
    /\ StoredIds(file) \subseteq StoredIds(file_at_start) \cup {strip(id) : id \in Range(posted)}

\* The second notice of a batch failed hard after the first was delivered,
\* in a run that started from a state file holding ids.
C4_Witness ==
    /\ RunEnded("delivery_failed")
    /\ Len(posted) >= 1
    /\ Len(new_notices) > Len(posted)
    /\ StoredIds(file_at_start) # {}

\* C5 (as claimed): the send of one notice always ends, in success or in a
\* hard failure, even if the sink keeps answering 429.
C5_SendTerminates ==
    \A i \in 1..(MaxPage + 1) : InSend(i) ~> ~InSend(i)

\* C10: a run whose fetch of the board page fails exits non-zero, posts
\* nothing and leaves the state file as it was when the run started.
C10_FetchFailureKeepsState ==
    RunEnded("fetch_failed")
        => /\ exit_code # 0
           /\ posted = <<>>
           /\ file = file_at_start

\* The fetch failed in a second run that had loaded ids from the state file.
C10_Witness ==
    /\ RunEnded("fetch_failed")
    /\ runs >= 2
    /\ seen_ids # {}
    /\ file.kind = "text"

\* The run got its settings and its seen set: get_settings and load_seen_ids
\* returned and main went on to the fetch.
SettingsLoaded ==
    \/ pc \in {"fetch", "post", "sleep"}
    \/ pc = "exit" /\ outcome \notin {"config_error", "load_raised"}

\* First day of the window the configuration asks for: today - (N - 1).
ConfiguredCutoff == today - (settings.date_range_days - 1)

\* C11 (as claimed): in a run whose configuration has filter_by_date true and
\* date_range_days N, no notice dated before today - (N - 1) is delivered, and
\* none is added to the seen set.
C11_RecencyOptionsUsed ==
    (SettingsLoaded /\ settings.filter_by_date)
        => /\ \A i \in 1..Len(posted) : new_notices[i].date >= ConfiguredCutoff
           /\ \A n \in Range(new_notices) :
                  strip(n.id) \in StoredIds(file) \ StoredIds(file_at_start)
                      => n.date >= ConfiguredCutoff

\* C12 (as claimed): settings that get_settings returned have max_seen_ids > 0
\* and date_range_days > 0, so no zero or negative value reaches the fetch,
\* diff_new_notices or save_seen_ids.
C12_SettingsValidated ==
    SettingsLoaded => settings.max_seen_ids > 0 /\ settings.date_range_days > 0

\* C14: notify_new_notices delivers in the order of its list: whenever notice
\* idx is being attempted (first try or retry), exactly the notices before it
\* have been posted, once each and in list order; a send that returned has
\* posted every notice once; the ids go out ascending, oldest first.
C14_DeliversInListOrder ==
    /\ Len(posted) <= Len(new_notices)
    /\ \A i \in 1..Len(posted) : posted[i] = new_notices[i].id
    /\ pc \in {"post", "sleep"} => Len(posted) = idx - 1
    /\ RunEnded("sent") => Len(posted) = Len(new_notices)
    /\ \A i, j \in 1..Len(posted) :
           i < j => PyInt(posted[i]).val <= PyInt(posted[j]).val

\* The second notice of a batch is being retried after a 429, the first and
\* older one having been posted.
C14_Witness ==
    /\ pc = "post"
    /\ idx = 2
    /\ retried >= 1
    /\ posted = <<new_notices[1].id>>
    /\ new_notices[1].id # new_notices[2].id

-----------------------------------------------------------------------------
\* Claims about repeated calls (SpecPure).

\* C13: diff_new_notices is pure: no call changes the seen_ids or the list it
\* was given, and with an explicit reference_date a second call with the same
\* arguments returns the list the first call returned, whatever the clock
\* says by then.
C13_Pure ==
    /\ []((ret.op = "again" /\ args.reference_date # NoDate) => ret.again = ret.value)
    /\ [][args' = args]_vars

\* Called twice, a day or more apart, with the date filter on, an explicit
\* reference date and an unsorted list of which one notice survives and one
\* does not.
C13_Witness ==
    /\ ret.op = "again"
    /\ ret.first_clock # today
    /\ args.filter_by_date
    /\ args.reference_date # NoDate
    /\ args.notices # SortNewList(args.notices)
    /\ Len(ret.again) = 1
    /\ Len(args.notices) = 2

-----------------------------------------------------------------------------
\* crawler.parse_notices over the rows _find_notice_rows returns. A row is
\* its first <a href> (or none) and its cells in document order; an href is
\* what urlparse splits it into: netloc, the segments of an absolute path and
\* the query pairs; a cell text is the date it spells.

MaxRows == 2        \* longest list of rows of a page

\* str.lower() of the characters the model uses.
LowerChar(c) ==
    CASE c = "I" -> "i" [] c = "D" -> "d" [] c = "X" -> "x" [] OTHER -> c

LowerStr(s) == [i \in 1..Len(s) |-> LowerChar(s[i])]

\* sub in s
IsSubstr(sub, s) ==
    \E i \in 1..(Len(s) - Len(sub) + 1) : SubSeq(s, i, i + Len(sub) - 1) = sub

StartsWith(s, p) == Len(s) >= Len(p) /\ SubSeq(s, 1, Len(p)) = p

\* str.isdigit() on ASCII text
isdigit(s) == s # <<>> /\ \A i \in 1..Len(s) : s[i] \in Digits

IdKeyTokens ==
    {<<"a", "r", "t", "c", "l">>, <<"a", "r", "t", "i", "c", "l", "e">>,
     <<"i", "d">>, <<"i", "d", "x">>, <<"n", "o">>, <<"s", "e", "q">>}

ArtclViewDo == <<"a", "r", "t", "c", "l", "V", "i", "e", "w", ".", "d", "o">>

Href(netloc, path, query) ==
    [present |-> TRUE, netloc |-> netloc, path |-> path, query |-> query]

\* row.find("a", href=True) found nothing.
NoLink == [present |-> FALSE, netloc |-> <<>>, path |-> <<>>, query |-> <<>>]

FoundId(id) == [found |-> TRUE, id |-> id]
NoId == [found |-> FALSE, id |-> <<>>]

\* urlparse(href) raises ValueError("Invalid IPv6 URL") when the netloc holds
\* one of "[" and "]" without the other.
UrlparseRaises(href) ==
    ("[" \in Range(href.netloc)) # ("]" \in Range(href.netloc))

\* One query pair passes the test of step 1.
QueryHit(pair) ==
    /\ \E tok \in IdKeyTokens : IsSubstr(tok, LowerStr(pair.key))
    /\ isdigit(strip(pair.value))

\* _extract_notice_id on an href urlparse accepted: the first query value
\* that is a number under an id-like key, else the number before
\* /artclView.do, else the first of the longest all-digit path segments.
extract_notice_id(href) ==
    LET qhits == {i \in 1..Len(href.query) : QueryHit(href.query[i])}
        rhits == {i \in 1..(Len(href.path) - 1) :
                      /\ isdigit(href.path[i])
                      /\ StartsWith(href.path[i + 1], ArtclViewDo)}
        digit_segments == SelectSeq(href.path, isdigit)
        First(S) == CHOOSE i \in S : \A j \in S : i <= j
        longest == {i \in 1..Len(digit_segments) :
                        \A j \in 1..Len(digit_segments) :
                            Len(digit_segments[j]) <= Len(digit_segments[i])}
    IN  IF qhits # {} THEN FoundId(strip(href.query[First(qhits)].value))
        ELSE IF rhits # {} THEN FoundId(href.path[First(rhits)])
        ELSE IF digit_segments # <<>> THEN FoundId(digit_segments[First(longest)])
        ELSE NoId

\* Texts of a cell: "2024.05.01"-like (a full date), "05.01"-like (month and
\* day), "2024.13.45"-like (the pattern of a date, no date) and anything else.
FullDate(d) == [kind |-> "ymd", day |-> d]
ShortDate(d) == [kind |-> "md", day |-> d]
BadDate == [kind |-> "ymd_invalid", day |-> NoDate]
OtherText == [kind |-> "other", day |-> NoDate]

Cell(cls, text) == [cls |-> cls, text |-> text]
NoCell == [cls |-> "none", text |-> OtherText]

\* _parse_date: strptime with the listed formats; a month-day text gets the
\* current year; no format matching is a ValueError (ok = FALSE).
parse_date(text) ==
    IF text.kind \in {"ymd", "md"} THEN [ok |-> TRUE, val |-> text.day]
    ELSE [ok |-> FALSE, val |-> NoDate]

\* _extract_date_from_text on the row's text: the first match of DATE_PATTERN
\* decides; a match that is no date gives None.
extract_date_from_text(texts) ==
    LET hits == {i \in 1..Len(texts) : texts[i].kind \in {"ymd", "ymd_invalid"}}
        first == CHOOSE i \in hits : \A j \in hits : i <= j
    IN  IF hits = {} THEN NoDate
        ELSE IF texts[first].kind = "ymd" THEN texts[first].day
        ELSE NoDate

\* _extract_date_cell: the first cell of class date, else the last but one,
\* else the only one, else None.
extract_date_cell(cells) ==
    LET dated == {i \in 1..Len(cells) : cells[i].cls = "date"}
    IN  IF dated # {} THEN cells[CHOOSE i \in dated : \A j \in dated : i <= j]
        ELSE IF Len(cells) >= 2 THEN cells[Len(cells) - 1]
        ELSE IF Len(cells) = 1 THEN cells[1]
        ELSE NoCell

\* The date parse_notices gives a row: the date cell, else the first date in
\* the row's text, else today.
RowDate(row, clock) ==
    LET date_cell == extract_date_cell(row.cells)
        from_cell == IF date_cell # NoCell /\ parse_date(date_cell.text).ok
                     THEN parse_date(date_cell.text).val
                     ELSE NoDate
        from_text == IF from_cell # NoDate THEN from_cell
                     ELSE extract_date_from_text([i \in 1..Len(row.cells) |-> row.cells[i].text])
    IN  IF from_text # NoDate THEN from_text ELSE clock

\* parse_notices: the loop over the rows. The ValueError of urlparse is
\* caught nowhere in crawler.py and ends the call.
RECURSIVE parse_rows(_, _, _)
parse_rows(rows, notices, clock) ==
    IF rows = <<>> THEN Returned(notices)
    ELSE LET row == Head(rows)
         IN  IF ~row.link.present THEN parse_rows(Tail(rows), notices, clock)
             ELSE IF UrlparseRaises(row.link) THEN Raised("ValueError")
             ELSE IF ~extract_notice_id(row.link).found
                  THEN parse_rows(Tail(rows), notices, clock)
             ELSE parse_rows(Tail(rows),
                             Append(notices, Notice(extract_notice_id(row.link).id,
                                                    RowDate(row, clock))),
                             clock)

parse_notices(rows, clock) == parse_rows(rows, <<>>, clock)

\* hrefs: /bbs/107/45/artclView.do, artclView.do?Idx=+12+ (a padded value),
\* /a/12/345/678/x, /a/view?page=3, http://[host/46/artclView.do
LinkPool ==
    {NoLink,
     Href(<<>>, <<<<"b", "b", "s">>, <<"1", "0", "7">>, <<"4", "5">>, ArtclViewDo>>, <<>>),
     Href(<<>>, <<ArtclViewDo>>, <<[key |-> <<"I", "d", "x">>, value |-> <<" ", "1", "2", " ">>]>>),
     Href(<<>>, <<<<"a">>, <<"1", "2">>, <<"3", "4", "5">>, <<"6", "7", "8">>, <<"x">>>>, <<>>),
     Href(<<>>, <<<<"a">>, <<"v", "i", "e", "w">>>>,
          <<[key |-> <<"p", "a", "g", "e">>, value |-> <<"3">>]>>),
     Href(<<"[", "h", "o", "s", "t">>, <<<<"4", "6">>, ArtclViewDo>>, <<>>)}

CellsPool ==
    {<<>>,
     <<Cell("title", OtherText), Cell("date", FullDate(0)), Cell("views", OtherText)>>,
     <<Cell("", OtherText), Cell("", FullDate(1)), Cell("", OtherText)>>,
     <<Cell("", FullDate(0))>>,
     <<Cell("title", FullDate(1)), Cell("date", OtherText)>>,
     <<Cell("date", ShortDate(0))>>,
     <<Cell("title", BadDate), Cell("date", OtherText), Cell("", FullDate(1))>>,
     <<Cell("date", OtherText)>>}

RowPool == {[link |-> l, cells |-> c] : l \in LinkPool, c \in CellsPool}

\* SpecParse: parse_notices called once on a page's rows.
ParseInit ==
    /\ MainIdle
    /\ file = AbsentFile
    /\ file_at_start = AbsentFile
    /\ today \in Days
    /\ ret = NotCalled
    /\ \E rows \in SeqsUpTo(RowPool, MaxRows) : args = [op |-> "parse", rows |-> rows]

ParseCall ==
    /\ args.op = "parse"
    /\ ret = NotCalled
    /\ ret' = [op |-> "parse", result |-> parse_notices(args.rows, today)]
    /\ UNCHANGED <<mainVars, file, file_at_start, today, args>>

ParseNext == ParseCall

SpecParse == ParseInit /\ [][ParseNext]_vars

-----------------------------------------------------------------------------
\* Claims about parsing (SpecParse).

ParseDone == ret.op = "parse"

\* The row has a link from which an id can be extracted.
HasExtractableId(row) ==
    /\ row.link.present
    /\ ~UrlparseRaises(row.link)
    /\ extract_notice_id(row.link).found

\* C15 (as claimed): parse_notices returns, in document order, one Notice for
\* every row that has a link with an extractable id; every other row is
\* skipped without aborting the batch; every returned Notice has a non-empty
\* id and a date.
C15_ParseFailuresPerRow ==
    ParseDone =>
        LET kept == SelectSeq(args.rows, HasExtractableId)
        IN  /\ ret.result.raised = "none"
            /\ Len(ret.result.value) = Len(kept)
            /\ \A i \in 1..Len(kept) :
                   /\ ret.result.value[i].id = extract_notice_id(kept[i].link).id
                   /\ ret.result.value[i].id # <<>>
                   /\ ret.result.value[i].date # NoDate

-----------------------------------------------------------------------------
\* Claims about successive runs (Spec).

\* C16 (as claimed): with max_seen_ids > 0, an id delivered in a run that
\* completed successfully is never delivered again in a later run.
C16_NeverDeliveredAgain ==
    settings.max_seen_ids > 0
        => \A i \in 1..Len(posted) : posted[i] \notin delivered

\* C16 (amended): a run that completed successfully leaves every id it
\* delivered in the state file when the seen set fits in max_seen_ids, and no
\* later run delivers an id it found in the state file it loaded; an id is
\* delivered again only by a run whose state no longer holds it.
C16_NotDeliveredAgainWhileStored ==
    /\ \A i \in 1..Len(posted) :
           posted[i] \in delivered => strip(posted[i]) \notin StoredIds(file_at_start)
    /\ (/\ RunEnded("sent")
        /\ Cardinality(seen_ids \cup {strip(n.id) : n \in Range(new_notices)})
               <= settings.max_seen_ids)
           => {strip(id) : id \in delivered \cup Range(posted)} \subseteq StoredIds(file)

\* A second run is delivering a new notice while every id delivered by the
\* first run is in the state file it loaded.
C16_Witness ==
    /\ runs >= 2
    /\ pc = "post"
    /\ delivered # {}
    /\ delivered \subseteq StoredIds(file_at_start)
    /\ new_notices[idx].id \notin delivered

====
